---- MODULE Spec2Model ----
(***************************************************************************)
(* A model of simulate.py: the island treasure hunt board simulation.      *)
(*                                                                         *)
(*   Spec        the calls of simulate_single_run that simulation makes,   *)
(*               each from its arguments to its return, one action per     *)
(*               half of a loop iteration                                  *)
(*   SpecNoDice  the same calls on a board whose tiles grant no dice, run  *)
(*               to their return: a statement that can execute does        *)
(*   SpecResult  one SimResult object driven by arbitrary calls of         *)
(*               add_rolls, add_points and Tile.get_reward                 *)
(*   SpecOpt     one call of calc_best_multipliers, one action per         *)
(*               iteration of its greedy loop                              *)
(*   SpecTile    one call of a tile's get_reward or get_value, over every  *)
(*               draw of a wheel                                           *)
(*                                                                         *)
(* Python lists are modelled as functions over 0..n-1, so that indices     *)
(* are the source's.                                                       *)
(***************************************************************************)
EXTENDS Integers, Sequences, FiniteSets, TLC

VARIABLES
  board,            \* simulate_single_run argument: list of 24 tiles
  multipliers,      \* simulate_single_run argument: tier -> list of 24 multipliers
  num_dice_rolls,   \* simulate_single_run argument: starting dice
  points_to_meet,   \* simulate_single_run argument: point target
  save_history,     \* simulate_single_run argument
  result,           \* the SimResult of the run
  current_position, \* local of simulate_single_run
  multiplier,       \* local of simulate_single_run: multiplier of the current iteration
  roll,             \* local of simulate_single_run: the two-die sum of the current iteration
  pc,               \* position in simulate_single_run / which driver is running
  call,             \* SpecResult, SpecTile: the last call made
  opt,              \* SpecOpt: the locals of calc_best_multipliers
  runs              \* simulation: the number of results in its list runs

vars == <<board, multipliers, num_dice_rolls, points_to_meet, save_history,
          result, current_position, multiplier, roll, pc, call, opt, runs>>

\* the arguments of simulate_single_run
args == <<board, multipliers, num_dice_rolls, points_to_meet, save_history>>
\* the locals of simulate_single_run other than result
locals == <<current_position, multiplier, roll>>

(***************************************************************************)
(* Bounds of the exploration.                                              *)
(***************************************************************************)
\* runs on a board whose tiles grant dice can go on forever: they are
\* explored while rolls_done is below this cap
MaxRolls == 3
\* starting budgets 0..MaxSmallDice are explored on the source's board
MaxSmallDice == 2
\* the starting budget of the runs that walk down through every multiplier tier
TierDice == 104
\* SpecResult: number of calls made on one SimResult object
MaxCalls == 4
\* the number of runs of one simulation
MaxRuns == 2
\* the starting budget of the runs that climb both breakpoint ladders to the top
LadderDice == 480

(***************************************************************************)
(* Program constants.                                                      *)
(***************************************************************************)
BoardSize == 24
SpinMax == 10000

Max(a, b) == IF a >= b THEN a ELSE b
Min(a, b) == IF a <= b THEN a ELSE b

\* SimResult.points_breakpoints, index 0..29
points_breakpoints ==
  [k \in 0..29 |->
     (<<2000, 5000, 8000, 12000, 16000, 20000>>)[(k % 6) + 1] + 20000 * (k \div 6)]

\* SimResult.roll_dice_task_breakpoints, index 0..16
roll_dice_task_breakpoints ==
  [k \in 0..16 |->
     (<<5, 10, 20, 30, 40, 60, 80, 100, 150, 200, 250, 300, 350, 400, 450, 500, 600>>)[k + 1]]

\* SimResult.roll_dice_task_reward, index 0..16
roll_dice_task_reward ==
  [k \in 0..16 |-> (<<1, 2, 2, 2, 2, 3, 3, 5, 5, 5, 5, 5, 5, 5, 5, 5, 5>>)[k + 1]]

(***************************************************************************)
(* SimResultState and SimResult.                                           *)
(***************************************************************************)
SimResultState ==
  [points |-> 0, rolls_done |-> 0, initial_dice |-> 0, free_dice |-> 0,
   gems |-> 0, chroma |-> 0, obsidian |-> 0, otta |-> 0, gold |-> 0]

NewSimResult ==
  [current_state |-> SimResultState, saved_state |-> <<>>,
   points_bp_met |-> -1, roll_dice_bp_met |-> -1]

\* mutant: a breakpoint is met only once the points exceed it
RECURSIVE PointsLoopStrict(_, _, _)
PointsLoopStrict(met, num_dice, points) ==
  IF met + 1 > 29 THEN <<met, num_dice>>
  ELSE IF points <= points_breakpoints[met + 1] THEN <<met, num_dice>>
  ELSE PointsLoopStrict(met + 1, num_dice + 2, points)

\* mutant: the loop stops after the first breakpoint it meets
PointsLoopOnce(met, num_dice, points) ==
  IF met + 1 > 29 THEN <<met, num_dice>>
  ELSE IF points < points_breakpoints[met + 1] THEN <<met, num_dice>>
  ELSE <<met + 1, num_dice + 2>>

\* the for loop of add_points: <<points_bp_met, num_dice>> after it
RECURSIVE PointsLoop(_, _, _)
PointsLoop(met, num_dice, points) ==
  IF met + 1 > 29 THEN <<met, num_dice>>
  ELSE IF points < points_breakpoints[met + 1] THEN <<met, num_dice>>
  ELSE PointsLoop(met + 1, num_dice + 2, points)

add_points(res, num_points) ==
  IF num_points <= 0 THEN res
  ELSE LET points == res.current_state.points + num_points
           lp == PointsLoop(res.points_bp_met, 0, points)
       IN [res EXCEPT !.current_state.points = points,
                      !.points_bp_met = lp[1],
                      !.current_state.free_dice = @ + lp[2]]

\* mutant: the cursor is not advanced, so a breakpoint met is paid again
RollsLoopNoAdvance(met, num_dice, rolls_done) ==
  IF met + 1 > 16 THEN <<met, num_dice>>
  ELSE IF rolls_done < roll_dice_task_breakpoints[met + 1] THEN <<met, num_dice>>
  ELSE <<met, roll_dice_task_reward[met + 1]>>

\* mutant: the rewards of the breakpoints met add up
RECURSIVE RollsLoopSum(_, _, _)
RollsLoopSum(met, num_dice, rolls_done) ==
  IF met + 1 > 16 THEN <<met, num_dice>>
  ELSE IF rolls_done < roll_dice_task_breakpoints[met + 1] THEN <<met, num_dice>>
  ELSE RollsLoopSum(met + 1, num_dice + roll_dice_task_reward[met + 1], rolls_done)

\* the for loop of add_rolls: <<roll_dice_bp_met, num_dice>> after it
RECURSIVE RollsLoop(_, _, _)
RollsLoop(met, num_dice, rolls_done) ==
  IF met + 1 > 16 THEN <<met, num_dice>>
  ELSE IF rolls_done < roll_dice_task_breakpoints[met + 1] THEN <<met, num_dice>>
  ELSE RollsLoop(met + 1, roll_dice_task_reward[met + 1], rolls_done)

\* mutant: every roll is charged to the starting budget
PayRollsNoFree(cs, num_rolls) ==
  [cs EXCEPT !.initial_dice = @ + num_rolls,
             !.free_dice = Max(0, cs.free_dice - num_rolls)]

\* mutant: the starting budget is charged without the test of line 79
PayRollsUnguarded(cs, num_rolls) ==
  [cs EXCEPT !.initial_dice = @ + (num_rolls - cs.free_dice),
             !.free_dice = Max(0, cs.free_dice - num_rolls)]

\* mutant: the banked dice are not floored at 0
PayRollsNoFloor(cs, num_rolls) ==
  [cs EXCEPT !.initial_dice = IF cs.free_dice <= num_rolls
                              THEN @ + (num_rolls - cs.free_dice) ELSE @,
             !.free_dice = cs.free_dice - num_rolls]

\* lines 79-82: the dice paid from the starting budget and the dice left banked
PayRolls(cs, num_rolls) ==
  [cs EXCEPT !.initial_dice = IF cs.free_dice <= num_rolls
                              THEN @ + (num_rolls - cs.free_dice) ELSE @,
             !.free_dice = Max(0, cs.free_dice - num_rolls)]

add_rolls(res, num_rolls) ==
  IF num_rolls <= 0 THEN res
  ELSE LET rolls_done == res.current_state.rolls_done + num_rolls
           paid == PayRolls([res.current_state EXCEPT !.rolls_done = rolls_done], num_rolls)
           lp == RollsLoop(res.roll_dice_bp_met, 0, rolls_done)
       IN [res EXCEPT !.current_state = [paid EXCEPT !.free_dice = @ + lp[2]],
                      !.roll_dice_bp_met = lp[1]]

\* mutant: the entries share the one state object instead of holding copies
saveSharedState(res, position) ==
  [res EXCEPT !.saved_state =
     Append([i \in 1..Len(@) |-> <<@[i][1], res.current_state>>],
            <<position, res.current_state>>)]

\* SimResult.save: the snapshot is a copy of the state's value
save(res, position) ==
  [res EXCEPT !.saved_state = Append(@, <<position, res.current_state>>)]

(***************************************************************************)
(* Tiles.                                                                  *)
(***************************************************************************)
FlatTile(points, gems, dice) ==
  [kind |-> "Flat", points |-> points, gems |-> gems, dice |-> dice]
GrandPrizeTile == [kind |-> "GrandPrize", points |-> 0, gems |-> 0, dice |-> 0]
PointWheelTile == [kind |-> "PointWheel", points |-> 0, gems |-> 0, dice |-> 0]
FateWheelTile == [kind |-> "FateWheel", points |-> 0, gems |-> 0, dice |-> 0]

FlatReward(tile, m, res) ==
  LET r1 == add_points(res, tile.points * m)
  IN [r1 EXCEPT !.current_state.gems = @ + tile.gems * m,
                !.current_state.free_dice = @ + tile.dice * m]

GrandPrizeReward(m, res, spin) ==
  IF spin <= 666 THEN [res EXCEPT !.current_state.chroma = @ + 2 * m]
  ELSE IF spin <= 666 + 2666 THEN [res EXCEPT !.current_state.obsidian = @ + 1 * m]
  ELSE IF spin <= 666 + 2666 + 2666 THEN [res EXCEPT !.current_state.gems = @ + 100 * m]
  ELSE IF spin <= 666 + 2666 + 2666 + 666 THEN [res EXCEPT !.current_state.chroma = @ + 1 * m]
  ELSE IF spin <= 666 + 2666 + 2666 + 666 + 666
       THEN [res EXCEPT !.current_state.free_dice = @ + 2 * m]
  ELSE [res EXCEPT !.current_state.free_dice = @ + 1 * m]

PointWheelPoints(spin) ==
  IF spin <= 3478 THEN 200
  ELSE IF spin <= 3478 + 2608 THEN 500
  ELSE IF spin <= 3478 + 2608 + 434 THEN 1000
  ELSE 100

PointWheelSpinMultiplier(spin2) ==
  IF spin2 <= 3076 THEN 3
  ELSE IF spin2 <= 3076 + 769 THEN 5
  ELSE 1

PointWheelReward(m, res, spin, spin2) ==
  add_points(res, PointWheelPoints(spin) * PointWheelSpinMultiplier(spin2) * m)

\* mutant: the thresholds are compared one by one, not accumulated
FateWheelRewardNotCumulative(m, res, spin) ==
  IF spin <= 2500 THEN add_points(res, 500 * m)
  ELSE IF spin <= 300 THEN [res EXCEPT !.current_state.otta = @ + 2 * m]
  ELSE IF spin <= 700 THEN [res EXCEPT !.current_state.chroma = @ + 1 * m]
  ELSE IF spin <= 1500 THEN [res EXCEPT !.current_state.free_dice = @ + 1 * m]
  ELSE [res EXCEPT !.current_state.gold = @ + 2000 * m]

FateWheelReward(m, res, spin) ==
  IF spin <= 2500 THEN add_points(res, 500 * m)
  ELSE IF spin <= 2500 + 300 THEN [res EXCEPT !.current_state.otta = @ + 2 * m]
  ELSE IF spin <= 2500 + 300 + 700 THEN [res EXCEPT !.current_state.chroma = @ + 1 * m]
  ELSE IF spin <= 2500 + 300 + 700 + 1500
       THEN [res EXCEPT !.current_state.free_dice = @ + 1 * m]
  ELSE [res EXCEPT !.current_state.gold = @ + 2000 * m]

\* Tile.get_reward, dispatched on the tile's class; spin and spin2 are the
\* values random.randint(1,10000) returns
get_reward(tile, m, res, spin, spin2) ==
  CASE tile.kind = "Flat" -> FlatReward(tile, m, res)
    [] tile.kind = "GrandPrize" -> GrandPrizeReward(m, res, spin)
    [] tile.kind = "PointWheel" -> PointWheelReward(m, res, spin, spin2)
    [] tile.kind = "FateWheel" -> FateWheelReward(m, res, spin)

\* the draws explored for random.randint(1,10000): both ends of the range and
\* both sides of every threshold a wheel compares a draw with
SpinDraws(thresholds) == {1, SpinMax} \cup thresholds \cup {t + 1 : t \in thresholds}

\* the first draw of a tile: a flat tile draws nothing
SpinsOf(tile) ==
  CASE tile.kind = "Flat" -> {1}
    [] tile.kind = "GrandPrize" -> SpinDraws({666, 3332, 5998, 6664, 7330})
    [] tile.kind = "PointWheel" -> SpinDraws({3478, 6086, 6520})
    [] tile.kind = "FateWheel" -> SpinDraws({2500, 2800, 3500, 5000})

\* the second draw: only the point wheel draws one
Spins2Of(tile) == IF tile.kind = "PointWheel" THEN SpinDraws({3076, 3845}) ELSE {1}

(***************************************************************************)
(* Boards and multiplier plans.                                            *)
(***************************************************************************)
\* the module-level board
SourceBoard ==
  [i \in 0..23 |->
    (<<FlatTile(400, 0, 0), FlatTile(0, 50, 0), FlatTile(50, 0, 0), FlatTile(400, 0, 0),
       FlatTile(800, 0, 0), FlatTile(50, 0, 0), FlatTile(0, 0, 2), FlatTile(0, 50, 0),
       GrandPrizeTile, FlatTile(0, 0, 0), PointWheelTile, FlatTile(50, 0, 0),
       FlatTile(200, 0, 0), FlatTile(0, 0, 0), FlatTile(0, 0, 2), FlatTile(200, 0, 0),
       FlatTile(800, 0, 0), FlatTile(0, 0, 0), FlatTile(50, 0, 0), FlatTile(200, 0, 0),
       PointWheelTile, FlatTile(0, 0, 0), FateWheelTile, FlatTile(200, 0, 0)>>)[i + 1]]

\* 24 tiles FlatTile()
ZeroBoard == [i \in 0..23 |-> FlatTile(0, 0, 0)]

\* 24 tiles FlatTile(200): points only
PointsBoard == [i \in 0..23 |-> FlatTile(200, 0, 0)]

\* whether some tile of the board can grant free dice
GrantsDice(b) ==
  \E i \in 0..23 : b[i].kind \in {"GrandPrize", "FateWheel"} \/ b[i].dice > 0

SameList(m) == [i \in 0..23 |-> m]

create_sim_details_same_mult(list) ==
  [t \in {2, 3, 5, 10} |-> list]

\* the '6x10' plan of the source
Plan6x10 ==
  create_sim_details_same_mult(
    [i \in 0..23 |-> IF i \in {7, 8, 9, 20, 21, 22} THEN 10 ELSE 1])

\* a plan holding 5 at every space of every tier
PlanAll5 == create_sim_details_same_mult(SameList(5))

\* a plan holding 10 at every space of every tier
PlanAll10 == create_sim_details_same_mult(SameList(10))

\* a plan whose four lists differ and stay below each tier's ceiling
PlanTiers ==
  [t \in {2, 3, 5, 10} |->
     SameList(CASE t = 2 -> 2 [] t = 3 -> 3 [] t = 5 -> 4 [] t = 10 -> 7)]

(***************************************************************************)
(* simulate_single_run.                                                    *)
(***************************************************************************)
\* mutant: banked free dice do not keep the run going
LoopConditionNoFreeDice(cs, dice, target) ==
  cs.points < target /\ cs.initial_dice < dice

\* mutant: the run goes on only while it has both starting and banked dice
LoopConditionBothDice(cs, dice, target) ==
  cs.points < target /\ (cs.initial_dice < dice /\ cs.free_dice > 0)

\* mutant: the run goes on while the points are at most the target
LoopConditionPointsLeq(cs, dice, target) ==
  cs.points <= target /\ (cs.initial_dice < dice \/ cs.free_dice > 0)

\* mutant: the run goes on while the dice spent are at most the budget
LoopConditionDiceLeq(cs, dice, target) ==
  cs.points < target /\ (cs.initial_dice <= dice \/ cs.free_dice > 0)

\* the while condition, line 446
LoopCondition(cs, dice, target) ==
  cs.points < target /\ (cs.initial_dice < dice \/ cs.free_dice > 0)

\* mutant: the dice already spent from the budget are not subtracted
NumTurnsIgnoresSpent(cs, dice) == dice + cs.free_dice

\* line 448
NumTurns(cs, dice) == dice - cs.initial_dice + cs.free_dice

\* lines 449-457
ListOfMultipliers(plan, num_turns) ==
  IF num_turns >= 100 THEN plan[10]
  ELSE IF num_turns >= 50 THEN plan[5]
  ELSE IF num_turns >= 30 THEN plan[3]
  ELSE IF num_turns >= 20 THEN plan[2]
  ELSE SameList(1)

\* mutant: the ceilings apply one turn too far
ClampMultiplierOffByOne(m, num_turns) ==
  IF num_turns <= 20 THEN Min(1, m)
  ELSE IF num_turns <= 30 THEN Min(2, m)
  ELSE IF num_turns <= 50 THEN Min(3, m)
  ELSE IF num_turns <= 100 THEN Min(5, m)
  ELSE m

\* lines 459-466
ClampMultiplier(m, num_turns) ==
  IF num_turns < 20 THEN Min(1, m)
  ELSE IF num_turns < 30 THEN Min(2, m)
  ELSE IF num_turns < 50 THEN Min(3, m)
  ELSE IF num_turns < 100 THEN Min(5, m)
  ELSE m

\* lines 448-466
ChooseMultiplier(plan, cs, dice, position) ==
  LET num_turns == NumTurns(cs, dice)
  IN ClampMultiplier(ListOfMultipliers(plan, num_turns)[position], num_turns)

\* mutant: the clamped multiplier is written back into the list it came from
PlanAfterChoiceClampInPlace(plan, cs, dice, position) ==
  LET num_turns == NumTurns(cs, dice)
      tier == IF num_turns >= 100 THEN 10 ELSE IF num_turns >= 50 THEN 5
              ELSE IF num_turns >= 30 THEN 3 ELSE IF num_turns >= 20 THEN 2 ELSE 0
  IN IF tier = 0 THEN plan
     ELSE [plan EXCEPT ![tier][position] = ClampMultiplier(@, num_turns)]

\* lines 448-466 read the plan and assign only locals: the plan after them
PlanAfterChoice(plan, cs, dice, position) == plan

\* mutant: the reward is resolved unboosted
RewardMultiplierOne(m) == 1

\* the multiplier get_reward is called with, line 475
RewardMultiplier(m) == m

\* the arguments explored
Runs ==
  LET Big == 1000000
  IN   \* the source's board, small budgets, with and without history
       { [board |-> SourceBoard, multipliers |-> p, num_dice_rolls |-> d,
          points_to_meet |-> t, save_history |-> h] :
            p \in {Plan6x10}, d \in (-1)..MaxSmallDice, t \in {0, 400, Big},
            h \in BOOLEAN }
       \* the source's board, budgets at the edge of each tier
  \cup { [board |-> SourceBoard, multipliers |-> PlanAll10, num_dice_rolls |-> d,
          points_to_meet |-> Big, save_history |-> FALSE] : d \in {20, 30, 50, 100} }
       \* a budget of a million with no points to meet
  \cup { [board |-> b, multipliers |-> Plan6x10, num_dice_rolls |-> Big,
          points_to_meet |-> 0, save_history |-> FALSE] : b \in {SourceBoard, ZeroBoard} }
       \* complete runs down through every tier on a board that grants nothing
  \cup { [board |-> ZeroBoard, multipliers |-> p, num_dice_rolls |-> d,
          points_to_meet |-> Big, save_history |-> FALSE] :
            p \in {PlanAll10, PlanTiers, Plan6x10}, d \in {0, TierDice} }

\* the arguments explored on a board that grants points only: complete runs
\* up both breakpoint ladders, and runs with a budget of 1, of none and far
\* below none
NoDiceRuns ==
  { [board |-> PointsBoard, multipliers |-> p, num_dice_rolls |-> d,
     points_to_meet |-> 1000000, save_history |-> FALSE] :
       p \in {PlanAll5, PlanAll10}, d \in {-126, 0, 1, LadderDice} }

\* lines 431-445: simulate_single_run is called with arguments of the set rs
Called(rs) ==
  /\ \E r \in rs :
       /\ board = r.board
       /\ multipliers = r.multipliers
       /\ num_dice_rolls = r.num_dice_rolls
       /\ points_to_meet = r.points_to_meet
       /\ save_history = r.save_history
  /\ result = NewSimResult
  /\ current_position = 0
  /\ multiplier = 0
  /\ roll = 0
  /\ pc = "loop"
  /\ runs = 0
  /\ call = <<>>
  /\ opt = <<>>

Init == Called(Runs)

\* lines 446-470: the loop condition holds, the multiplier is chosen and the
\* dice are rolled from the current tile
Roll ==
  /\ pc = "loop"
  /\ LoopCondition(result.current_state, num_dice_rolls, points_to_meet)
  /\ GrantsDice(board) => result.current_state.rolls_done < MaxRolls
  /\ LET m == ChooseMultiplier(multipliers, result.current_state, num_dice_rolls,
                               current_position)
     IN /\ multiplier' = m
        /\ result' = add_rolls(result, m)
  /\ multipliers' = PlanAfterChoice(multipliers, result.current_state, num_dice_rolls,
                                    current_position)
  /\ roll' \in {d1 + d2 : d1 \in 1..6, d2 \in 1..6}
  /\ pc' = "land"
  /\ UNCHANGED <<runs, board, num_dice_rolls, points_to_meet, save_history,
                 current_position, call, opt>>

\* lines 472-479: move, resolve the reward of the new tile, save the history
Land ==
  /\ pc = "land"
  /\ LET position == (current_position + roll) % BoardSize
         tile == board[position]
     IN /\ current_position' = position
        /\ \E spin \in SpinsOf(tile), spin2 \in Spins2Of(tile) :
             LET rewarded == get_reward(tile, RewardMultiplier(multiplier), result, spin, spin2)
             IN result' = IF save_history THEN save(rewarded, position) ELSE rewarded
  /\ pc' = "loop"
  /\ UNCHANGED <<runs, args, multiplier, roll, call, opt>>

\* line 481: the loop condition fails and the result is returned
Return ==
  /\ pc = "loop"
  /\ ~LoopCondition(result.current_state, num_dice_rolls, points_to_meet)
  /\ pc' = "done"
  /\ UNCHANGED <<runs, args, result, locals, call, opt>>

\* the budgets of num_dices explored for the runs after the first
RerunDice == (-1)..1

\* lines 495-498 of simulation: the result returned is appended to runs and
\* the next run is called with the same board, target and history flag, on a
\* plan of sim_details and a budget of num_dices
NextRun ==
  /\ pc = "done"
  /\ runs + 1 < MaxRuns
  /\ runs' = runs + 1
  /\ \E r \in Runs \cup NoDiceRuns :
       /\ r.board = board /\ r.points_to_meet = points_to_meet
       /\ r.save_history = save_history
       /\ r.num_dice_rolls \in RerunDice
       /\ multipliers' = r.multipliers
       /\ num_dice_rolls' = r.num_dice_rolls
  /\ result' = NewSimResult
  /\ current_position' = 0
  /\ multiplier' = 0
  /\ roll' = 0
  /\ pc' = "loop"
  /\ UNCHANGED <<board, points_to_meet, save_history, call, opt>>

Next == Roll \/ Land \/ Return \/ NextRun

Spec == Init /\ [][Next]_vars

\* the runs on a board whose tiles grant no dice
InitNoDice == Called(NoDiceRuns)

\* simulate_single_run is sequential code: a statement that can execute does
SpecNoDice ==
  InitNoDice /\ [][Next]_vars /\ WF_vars(Roll) /\ WF_vars(Land) /\ WF_vars(Return)

(***************************************************************************)
(* SpecResult: one SimResult object under arbitrary calls.                 *)
(***************************************************************************)
\* the arguments explored for add_rolls: none, negative, each multiplier the
\* run can charge, and one that passes several thresholds at once
RollArgs == {-1, 0, 1, 2, 3, 5, 10, 25}
\* the arguments explored for add_points
PointArgs == {-400, 0, 400, 2000, 8000, 50000}

InitResult ==
  /\ board = SourceBoard
  /\ multipliers = Plan6x10
  /\ num_dice_rolls = 0
  /\ points_to_meet = 0
  /\ save_history = FALSE
  /\ result = NewSimResult
  /\ current_position = 0
  /\ multiplier = 0
  /\ roll = 0
  /\ pc = "object"
  /\ runs = 0
  /\ call = [op |-> "new", arg |-> 0, n |-> 0]
  /\ opt = <<>>

\* result.add_rolls(num_rolls)
CallAddRolls ==
  /\ pc = "object" /\ call.n < MaxCalls
  /\ \E num_rolls \in RollArgs :
       /\ result' = add_rolls(result, num_rolls)
       /\ call' = [op |-> "add_rolls", arg |-> num_rolls, n |-> call.n + 1]
  /\ UNCHANGED <<runs, args, locals, pc, opt>>

\* result.add_points(num_points)
CallAddPoints ==
  /\ pc = "object" /\ call.n < MaxCalls
  /\ \E num_points \in PointArgs :
       /\ result' = add_points(result, num_points)
       /\ call' = [op |-> "add_points", arg |-> num_points, n |-> call.n + 1]
  /\ UNCHANGED <<runs, args, locals, pc, opt>>

\* tile.get_reward(m, result) for the dice tile of the board (index 6)
CallGetReward ==
  /\ pc = "object" /\ call.n < MaxCalls
  /\ \E m \in {1, 2, 3, 5, 10} :
       /\ result' = get_reward(board[6], m, result, 1, 1)
       /\ call' = [op |-> "get_reward", arg |-> m, n |-> call.n + 1]
  /\ UNCHANGED <<runs, args, locals, pc, opt>>

NextResult == CallAddRolls \/ CallAddPoints \/ CallGetReward

SpecResult == InitResult /\ [][NextResult]_vars

(***************************************************************************)
(* calc_best_multipliers.  The source computes in floating point; the      *)
(* model computes the same expressions over exact fractions <<n, d>>,      *)
(* d > 0, in lowest terms.  A division by zero (a board whose mean dice    *)
(* per visit is 1) raises ZeroDivisionError in the source; the boards      *)
(* explored stay clear of it.                                              *)
(***************************************************************************)
Abs(x) == IF x < 0 THEN -x ELSE x

RECURSIVE GCD(_, _)
GCD(a, b) == IF b = 0 THEN a ELSE GCD(b, a % b)

Rat(n, d) ==
  LET g == GCD(Abs(n), Abs(d))
      sgn == IF d < 0 THEN -1 ELSE 1
  IN <<(sgn * n) \div g, (sgn * d) \div g>>

RInt(n) == <<n, 1>>

RAdd(a, b) ==
  LET g == GCD(a[2], b[2])
  IN Rat(a[1] * (b[2] \div g) + b[1] * (a[2] \div g), (a[2] \div g) * b[2])

RNeg(a) == <<-a[1], a[2]>>
RSub(a, b) == RAdd(a, RNeg(b))

RMul(a, b) ==
  LET g1 == GCD(Abs(a[1]), b[2])
      g2 == GCD(Abs(b[1]), a[2])
  IN Rat((a[1] \div g1) * (b[1] \div g2), (a[2] \div g2) * (b[2] \div g1))

RDiv(a, b) == RMul(a, IF b[1] < 0 THEN <<-b[2], -b[1]>> ELSE <<b[2], b[1]>>)

\* a < b, by comparing the integer parts and then the fractional parts, so
\* that no product is formed
RECURSIVE RLess(_, _)
RLess(a, b) ==
  LET qa == a[1] \div a[2]
      qb == b[1] \div b[2]
      ra == a[1] % a[2]
      rb == b[1] % b[2]
  IN IF qa # qb THEN qa < qb
     ELSE IF rb = 0 THEN FALSE
     ELSE IF ra = 0 THEN TRUE
     ELSE RLess(<<b[2], rb>>, <<a[2], ra>>)

\* the sum of f[lo], ..., f[hi]; exact, so the order of the additions is immaterial
RECURSIVE RSum(_, _, _)
RSum(f, lo, hi) ==
  IF hi < lo THEN RInt(0)
  ELSE IF hi = lo THEN f[lo]
  ELSE LET mid == (lo + hi) \div 2
       IN RAdd(RSum(f, lo, mid), RSum(f, mid + 1, hi))

\* statistics.fmean of a list of 24
fmean(f) == RDiv(RSum(f, 0, 23), RInt(24))

\* line 202: the <<weight, points>> terms of PointWheelTile.get_value
PointWheelValueWeights == {<<3478, 100>>, <<3478, 200>>, <<2608, 500>>, <<434, 1000>>}

\* line 204: the <<weight, spin multiplier>> terms of PointWheelTile.get_value
PointWheelMultiplierWeights == {<<6153, 1>>, <<3076, 3>>, <<769, 5>>}

\* the sum of weight * value over a set of <<weight, value>> terms
RECURSIVE WeightedTotal(_)
WeightedTotal(terms) ==
  IF terms = {} THEN 0
  ELSE LET t == CHOOSE x \in terms : TRUE
       IN t[1] * t[2] + WeightedTotal(terms \ {t})

\* Tile.get_value: <<points, dice>> of one visit
get_value(tile) ==
  CASE tile.kind = "Flat" -> <<RInt(tile.points), RInt(tile.dice)>>
    [] tile.kind = "GrandPrize" -> <<RInt(0), Rat(666 * 2 + 2666 * 1, 10000)>>
    [] tile.kind = "PointWheel" ->
         <<RMul(Rat(WeightedTotal(PointWheelValueWeights), 10000),
                Rat(WeightedTotal(PointWheelMultiplierWeights), 10000)), RInt(0)>>
    [] tile.kind = "FateWheel" -> <<Rat(500 * 2500, 10000), Rat(1500 * 1, 10000)>>

\* the number of ways two dice make each sum, lines 252-303
num_hits == [s \in 2..12 |-> IF s <= 7 THEN s - 1 ELSE 13 - s]

\* lines 238-240: tile_calc_values from tile_values
tile_calc_values(tile_values) ==
  LET dice_value == RDiv(fmean([i \in 0..23 |-> tile_values[i][1]]),
                         RSub(RInt(1), fmean([i \in 0..23 |-> tile_values[i][2]])))
  IN [i \in 0..23 |-> RAdd(tile_values[i][1], RMul(tile_values[i][2], dice_value))]

\* lines 242-306: the total of f over the tiles a roll from i reaches, each
\* weighted by its hits out of 36
Landed(f, i) ==
  RSum([s \in 2..12 |-> RDiv(RMul(f[(i + s) % 24], RInt(num_hits[s])), RInt(36))], 2, 12)

\* lines 247-308: <<points, dice, value>> of a roll from each tile
tile_mult_value(tile_values, calc_values) ==
  [i \in 0..23 |->
     <<Landed([j \in 0..23 |-> tile_values[j][1]], i),
       Landed([j \in 0..23 |-> tile_values[j][2]], i),
       Landed(calc_values, i)>>]

\* mutant: the indices are sorted by value ascending
sorted_index_ascending(tmv) ==
  LET Before(j, i) == RLess(tmv[j][3], tmv[i][3]) \/ (tmv[j][3] = tmv[i][3] /\ j < i)
  IN [k \in 0..23 |->
        CHOOSE i \in 0..23 : Cardinality({j \in 0..23 : Before(j, i)}) = k]

\* line 311: the indices sorted by value, descending; sorted() is stable, so
\* equal values keep the order of their indices
sorted_index(tmv) ==
  LET Before(j, i) == RLess(tmv[i][3], tmv[j][3]) \/ (tmv[j][3] = tmv[i][3] /\ j < i)
  IN [k \in 0..23 |->
        CHOOSE i \in 0..23 : Cardinality({j \in 0..23 : Before(j, i)}) = k]

\* sum([best_multiplier[j] * tile_mult_value[j][c] ...]) / sum(best_multiplier)
WeightedMean(bm, tmv, c) ==
  RDiv(RSum([j \in 0..23 |-> RMul(RInt(bm[j]), tmv[j][c])], 0, 23),
       RSum([j \in 0..23 |-> RInt(bm[j])], 0, 23))

\* line 314
BaselinePpd(bm, tmv) == WeightedMean(bm, tmv, 3)

\* lines 319-321
Ppd(bm, tmv) ==
  LET avg_num_dice == WeightedMean(bm, tmv, 2)
  IN RDiv(WeightedMean(bm, tmv, 1), RSub(RInt(1), avg_num_dice))

\* mutant: no candidate is ever rejected
RejectsNever(ppd, best_ppd) == FALSE

\* mutant: a candidate that only ties the best is rejected too
RejectsOnTie(ppd, best_ppd) == ~RLess(best_ppd, ppd)

\* line 322: the candidate is rejected
Rejects(ppd, best_ppd) == RLess(ppd, best_ppd)

\* a board with one prize tile
OnePrizeBoard == [i \in 0..23 |-> IF i = 12 THEN FlatTile(800, 0, 0) ELSE FlatTile(0, 0, 0)]

\* a board with points, a dice tile and the two wheels that grant dice
MixedBoard ==
  [i \in 0..23 |->
     CASE i = 4 -> FlatTile(8, 0, 0)
       [] i = 6 -> FlatTile(0, 0, 2)
       [] i = 8 -> GrandPrizeTile
       [] i = 16 -> FlatTile(4, 0, 0)
       [] i = 22 -> FateWheelTile
       [] OTHER -> FlatTile(0, 0, 0)]

OptBoards == {ZeroBoard, OnePrizeBoard, MixedBoard}
OptBudgets == {1, 2, 3, 5, 10}

InitOpt ==
  /\ board = ZeroBoard
  /\ multipliers = Plan6x10
  /\ num_dice_rolls = 0
  /\ points_to_meet = 0
  /\ save_history = FALSE
  /\ result = NewSimResult
  /\ current_position = 0
  /\ multiplier = 0
  /\ roll = 0
  /\ pc = "optimizer"
  /\ runs = 0
  /\ call = <<>>
  /\ \E b \in OptBoards, m \in OptBudgets :
       opt = [board |-> b, multiplier |-> m, tile_values |-> <<>>,
              tile_calc_values |-> <<>>, tile_mult_value |-> <<>>,
              sorted_index |-> <<>>, best_multiplier |-> <<>>, best_ppd |-> <<>>,
              i |-> 0, pc |-> "values"]

\* lines 236-240
OptValues ==
  /\ pc = "optimizer" /\ opt.pc = "values"
  /\ \E tv \in {[i \in 0..23 |-> get_value(opt.board[i])]} :
       opt' = [opt EXCEPT !.tile_values = tv,
                          !.tile_calc_values = tile_calc_values(tv),
                          !.pc = "landed"]
  /\ UNCHANGED <<runs, args, result, locals, pc, call>>

\* lines 241-308
OptLanded ==
  /\ pc = "optimizer" /\ opt.pc = "landed"
  /\ opt' = [opt EXCEPT
               !.tile_mult_value = tile_mult_value(opt.tile_values, opt.tile_calc_values),
               !.pc = "sort"]
  /\ UNCHANGED <<runs, args, result, locals, pc, call>>

\* lines 310-314
OptSort ==
  /\ pc = "optimizer" /\ opt.pc = "sort"
  /\ opt' = [opt EXCEPT !.sorted_index = sorted_index(opt.tile_mult_value),
                        !.best_multiplier = SameList(1),
                        !.best_ppd = BaselinePpd(SameList(1), opt.tile_mult_value),
                        !.pc = "greedy"]
  /\ UNCHANGED <<runs, args, result, locals, pc, call>>

\* the candidate of iteration i: the next sorted tile raised to the budget
Candidate == [opt.best_multiplier EXCEPT ![opt.sorted_index[opt.i]] = opt.multiplier]

\* lines 315-325, the candidate is kept
GreedyKeep ==
  /\ pc = "optimizer" /\ opt.pc = "greedy" /\ opt.i < 24
  /\ \E ppd \in {Ppd(Candidate, opt.tile_mult_value)} :
        /\ ~Rejects(ppd, opt.best_ppd)
        /\ opt' = [opt EXCEPT !.best_multiplier = Candidate, !.best_ppd = ppd,
                              !.i = @ + 1]
  /\ UNCHANGED <<runs, args, result, locals, pc, call>>

\* lines 315-324, the candidate is reverted and the loop left; line 326
GreedyRevert ==
  /\ pc = "optimizer" /\ opt.pc = "greedy" /\ opt.i < 24
  /\ Rejects(Ppd(Candidate, opt.tile_mult_value), opt.best_ppd)
  /\ opt' = [opt EXCEPT !.pc = "returned"]
  /\ UNCHANGED <<runs, args, result, locals, pc, call>>

\* line 326, after the loop ran through every tile
GreedyReturn ==
  /\ pc = "optimizer" /\ opt.pc = "greedy" /\ opt.i = 24
  /\ opt' = [opt EXCEPT !.pc = "returned"]
  /\ UNCHANGED <<runs, args, result, locals, pc, call>>

NextOpt == OptValues \/ OptLanded \/ OptSort \/ GreedyKeep \/ GreedyRevert \/ GreedyReturn

SpecOpt == InitOpt /\ [][NextOpt]_vars

(***************************************************************************)
(* SpecTile: one call of a tile's get_reward or get_value.  A wheel's draw *)
(* ranges over all of 1..10000.                                            *)
(***************************************************************************)
\* a result part way through a run on the source's board with multiplier 1:
\* from 0 to tile 4, to the grand prize (2 dice), to tile 16, to the fate
\* wheel (2 otta)
MidRunResult ==
  LET r1 == get_reward(SourceBoard[4], 1, add_rolls(NewSimResult, 1), 1, 1)
      r2 == get_reward(SourceBoard[8], 1, add_rolls(r1, 1), 7000, 1)
      r3 == get_reward(SourceBoard[16], 1, add_rolls(r2, 1), 1, 1)
  IN get_reward(SourceBoard[22], 1, add_rolls(r3, 1), 2600, 1)

\* the tiles called: one of each kind and amount on the source's board
TilesCalled == {SourceBoard[i] : i \in 0..23}

\* the <<spin, spin2>> draws of one get_reward call: every value of a draw,
\* while the other draw of the point wheel takes the last value of each of
\* its ranges
TileDraws(tile) ==
  CASE tile.kind = "Flat" -> {<<1, 1>>}
    [] tile.kind = "PointWheel" ->
         {<<a, b>> : a \in 1..SpinMax, b \in {3076, 3845, SpinMax}}
           \cup {<<a, b>> : a \in {3478, 6086, 6520, SpinMax}, b \in 1..SpinMax}
    [] OTHER -> {<<a, 1>> : a \in 1..SpinMax}

InitTile ==
  /\ board = SourceBoard
  /\ multipliers = Plan6x10
  /\ num_dice_rolls = 0
  /\ points_to_meet = 0
  /\ save_history = FALSE
  /\ result \in {NewSimResult, MidRunResult}
  /\ current_position = 0
  /\ multiplier = 0
  /\ roll = 0
  /\ pc = "tile"
  /\ runs = 0
  /\ call = [op |-> "new"]
  /\ opt = <<>>

\* tile.get_reward(m, result)
TileGetReward ==
  /\ pc = "tile"
  /\ \E tile \in TilesCalled, m \in {1, 10} :
       \E draw \in TileDraws(tile) :
         /\ result' = get_reward(tile, m, result, draw[1], draw[2])
         /\ call' = [op |-> "get_reward", tile |-> tile, m |-> m,
                     spin |-> draw[1], spin2 |-> draw[2]]
  /\ pc' = "resolved"
  /\ UNCHANGED <<runs, args, locals, opt>>

\* tile.get_value()
TileGetValue ==
  /\ pc = "tile"
  /\ \E tile \in TilesCalled :
       call' = [op |-> "get_value", tile |-> tile, value |-> get_value(tile)]
  /\ pc' = "resolved"
  /\ UNCHANGED <<runs, args, result, locals, opt>>

NextTile == TileGetReward \/ TileGetValue

SpecTile == InitTile /\ [][NextTile]_vars

(***************************************************************************)
(* The claims.  Every formula restates its condition from the claim, not   *)
(* through the operators of the model above.                               *)
(***************************************************************************)
cs == result.current_state

\* the steps of simulate_single_run
RollStep == pc = "loop" /\ pc' = "land"
LandStep == pc = "land" /\ pc' = "loop"
ReturnStep == pc = "loop" /\ pc' = "done"
\* the next run of simulation starts, on a new result
NextRunStep == pc = "done" /\ pc' = "loop"

\* C1: an iteration starts only when points < pointsTarget and
\* (initialDiceSpent < startingDice or freeDice > 0), the run returns only when
\* that fails, and so the returned result has points >= pointsTarget, or
\* initialDiceSpent >= startingDice and freeDice = 0.
C1_LoopExactlyWhile ==
  [][/\ RollStep =>
          (cs.points < points_to_meet
             /\ (cs.initial_dice < num_dice_rolls \/ cs.free_dice > 0))
     /\ ReturnStep =>
          ~(cs.points < points_to_meet
              /\ (cs.initial_dice < num_dice_rolls \/ cs.free_dice > 0))
     /\ pc' = "done" =>
          (result'.current_state.points >= points_to_meet
             \/ (result'.current_state.initial_dice >= num_dice_rolls
                   /\ result'.current_state.free_dice = 0))]_vars

\* a run that rolled, reached its point target and returned with starting dice unused
C1_Witness ==
  /\ pc = "done" /\ cs.rolls_done > 0
  /\ points_to_meet > 0 /\ cs.points >= points_to_meet
  /\ cs.initial_dice < num_dice_rolls

\* C2 as stated: a run with a positive budget and pointsTarget = 0 returns
\* with its dice budget exhausted, after having rolled.
C2_EndsByDiceExhaustion ==
  (pc = "done" /\ points_to_meet = 0 /\ num_dice_rolls > 0) =>
     (cs.initial_dice >= num_dice_rolls /\ cs.free_dice = 0 /\ cs.rolls_done > 0)

\* C2 amended: a run with pointsTarget = 0 never starts an iteration, whatever
\* its dice budget: it is at the loop test or returned, at position 0, with
\* no roll done, no die spent and no history.
C2_ZeroTargetNoIteration ==
  points_to_meet = 0 =>
     /\ pc \in {"loop", "done"}
     /\ current_position = 0
     /\ cs.rolls_done = 0 /\ cs.initial_dice = 0 /\ cs.free_dice = 0 /\ cs.points = 0
     /\ result.saved_state = <<>>

\* the run with a million starting dice and no points to meet has returned
C2_Witness ==
  pc = "done" /\ points_to_meet = 0 /\ num_dice_rolls = 1000000 /\ cs.rolls_done = 0

\* the roll breakpoints newly crossed when rolls_done goes from old to new
RollsCrossed(old, new) ==
  {k \in 0..16 : old < roll_dice_task_breakpoints[k] /\ roll_dice_task_breakpoints[k] <= new}

\* the bonus of a call: the reward of the highest breakpoint newly crossed
RollBonus(old, new) ==
  IF RollsCrossed(old, new) = {} THEN 0
  ELSE roll_dice_task_reward[CHOOSE k \in RollsCrossed(old, new) :
                               \A j \in RollsCrossed(old, new) : j <= k]

AddRollsStep == call'.op = "add_rolls" /\ call'.n = call.n + 1
AddPointsStep == call'.op = "add_points" /\ call'.n = call.n + 1

\* C3: add_rolls(n) with n > 0 and freeDice = f: rolls_done grows by n,
\* initialDiceSpent by max(0, n - f), and freeDice becomes
\* max(0, f - n) + rollBonus.
C3_AddRollsAccounting ==
  [][(AddRollsStep /\ call'.arg > 0) =>
       LET n == call'.arg
           f == cs.free_dice
           after == result'.current_state
       IN /\ f >= 0
          /\ after.rolls_done = cs.rolls_done + n
          /\ after.initial_dice = cs.initial_dice + (IF n - f > 0 THEN n - f ELSE 0)
          /\ after.free_dice = (IF f - n > 0 THEN f - n ELSE 0)
                                 + RollBonus(cs.rolls_done, after.rolls_done)]_vars

\* add_rolls was called with fewer rolls than the dice banked, and then with more
C3_Witness ==
  /\ call.op = "add_rolls" /\ call.arg = 10
  /\ cs.rolls_done = 12 /\ cs.initial_dice = 6 /\ cs.free_dice = 2

\* the points breakpoints at or below a total
PointsMet(total) == {k \in 0..29 : points_breakpoints[k] <= total}

\* C4: add_points(p) with p > 0: points grows by p, the cursor ends past every
\* breakpoint at or below the new total, freeDice grows by 2 for each
\* breakpoint newly crossed; and no call makes the points decrease.
C4_AddPointsAccounting ==
  [][/\ result'.current_state.points >= cs.points
     /\ (AddPointsStep /\ call'.arg > 0) =>
          LET after == result'.current_state
              crossed == PointsMet(after.points) \ PointsMet(cs.points)
          IN /\ after.points = cs.points + call'.arg
             /\ result'.points_bp_met = Cardinality(PointsMet(after.points)) - 1
             /\ after.free_dice = cs.free_dice + 2 * Cardinality(crossed)]_vars

\* one add_points call crossed more than six breakpoints at once
C4_Witness ==
  /\ call.op = "add_points" /\ call.arg = 50000
  /\ cs.points = 58000 /\ result.points_bp_met = 16
  /\ cs.free_dice >= 28

\* C5: when an add_rolls call newly crosses roll breakpoints, the bonus is the
\* reward of the highest one only, and the cursor ends at that breakpoint, so
\* that a later call can be paid only for breakpoints above it.
C5_HighestRollRewardOnly ==
  [][(AddRollsStep /\ call'.arg > 0) =>
       LET f == cs.free_dice
           n == call'.arg
           after == result'.current_state
           crossed == RollsCrossed(cs.rolls_done, after.rolls_done)
           bonus == after.free_dice - (IF f - n > 0 THEN f - n ELSE 0)
       IN IF crossed = {}
          THEN bonus = 0 /\ result'.roll_dice_bp_met = result.roll_dice_bp_met
          ELSE /\ \E k \in crossed :
                    /\ \A j \in crossed : j <= k
                    /\ bonus = roll_dice_task_reward[k]
                    /\ result'.roll_dice_bp_met = k
               /\ \A k \in crossed : k > result.roll_dice_bp_met]_vars

\* going from 0 to 10 rolls in one call crossed 5 and 10 and granted 2, not 1 + 2
C5_Witness ==
  /\ call.op = "add_rolls" /\ call.arg = 10 /\ call.n = 1
  /\ cs.rolls_done = 10 /\ cs.free_dice = 2 /\ result.roll_dice_bp_met = 1

\* C6: freeDice >= 0 in every state of a run; within a run initialDiceSpent
\* never decreases and changes only in a roll whose multiplier exceeds the
\* freeDice banked before it.
C6_FreeDiceNonNegative ==
  /\ [](cs.free_dice >= 0)
  /\ [][~NextRunStep =>
          /\ result'.current_state.initial_dice >= cs.initial_dice
          /\ result'.current_state.initial_dice # cs.initial_dice =>
               (RollStep /\ multiplier' >= 1 /\ multiplier' > cs.free_dice)]_vars

\* a run in which one roll was paid from the budget and another from banked dice
C6_Witness ==
  /\ pc = "land" /\ cs.initial_dice >= 1 /\ cs.rolls_done > cs.initial_dice
  /\ cs.free_dice >= 1

\* the tier list the spec selects for a number of turns remaining: 0 is the all-ones list
C7_Tier(t) ==
  IF t >= 100 THEN 10 ELSE IF t >= 50 THEN 5 ELSE IF t >= 30 THEN 3
  ELSE IF t >= 20 THEN 2 ELSE 0

\* the affordability ceiling for a number of turns remaining: 0 is no ceiling
C7_Cap(t) ==
  IF t < 20 THEN 1 ELSE IF t < 30 THEN 2 ELSE IF t < 50 THEN 3
  ELSE IF t < 100 THEN 5 ELSE 0

\* C7: the multiplier of an iteration is min(cap, list[currentPosition]) for
\* the list and the cap that turnsRemaining selects.
C7_MultiplierByTurns ==
  [][RollStep =>
       LET t == num_dice_rolls - cs.initial_dice + cs.free_dice
           v == IF C7_Tier(t) = 0 THEN 1 ELSE multipliers[C7_Tier(t)][current_position]
       IN multiplier' = IF C7_Cap(t) # 0 /\ C7_Cap(t) < v THEN C7_Cap(t) ELSE v]_vars

\* a plan of all tens is being applied as 3, with 30 to 49 turns remaining
C7_Witness ==
  /\ pc = "land" /\ multipliers[3][0] = 10 /\ multiplier = 3
  /\ num_dice_rolls > 100

\* C8: an iteration charges its multiplier as rolls at the origin, moves
\* by a two-die sum in 2..12 modulo 24 to another position in 0..23, and
\* resolves the landing tile's reward with the multiplier it charged.
C8_IterationShape ==
  [][/\ RollStep =>
          /\ multiplier' >= 1
          /\ multiplier' \in {1} \cup {multipliers[t][current_position] : t \in {2, 3, 5, 10}}
                               \cup {2, 3, 5}
          /\ result'.current_state.rolls_done = cs.rolls_done + multiplier'
          /\ current_position' = current_position
          /\ roll' \in 2..12
     /\ LandStep =>
          /\ current_position' = (current_position + roll) % 24
          /\ current_position' \in 0..23
          /\ current_position' # current_position
          /\ multiplier' = multiplier
          /\ result'.current_state.rolls_done = cs.rolls_done
          /\ \E spin \in SpinsOf(board[current_position']),
                spin2 \in Spins2Of(board[current_position']) :
               result'.current_state =
                 get_reward(board[current_position'], multiplier, result,
                            spin, spin2).current_state]_vars

\* a roll charged at 2 landed on the 800-point tile, which paid 1600
C8_Witness ==
  /\ pc = "loop" /\ multiplier = 2 /\ current_position = 4
  /\ cs.rolls_done = 2 /\ cs.points = 1600

\* C9: a run with startingDice <= 0 never starts an iteration: every counter
\* stays 0, both cursors stay at -1 and the history stays empty.
C9_NoDiceNoIteration ==
  num_dice_rolls <= 0 =>
     /\ pc \in {"loop", "done"}
     /\ \A f \in DOMAIN cs : cs[f] = 0
     /\ DOMAIN cs = {"points", "rolls_done", "initial_dice", "free_dice", "gems",
                     "chroma", "obsidian", "otta", "gold"}
     /\ result.points_bp_met = -1 /\ result.roll_dice_bp_met = -1
     /\ result.saved_state = <<>>

\* a run with a negative budget on the source's board has returned
C9_Witness ==
  /\ pc = "done" /\ num_dice_rolls < 0 /\ points_to_meet > 0
  /\ \E i \in 0..23 : board[i].dice > 0

\* C10 as stated: for the board of 24 zero-reward tiles the optimizer returns
\* the all-ones assignment, for every budget.
C10_ZeroBoardAllOnes ==
  (opt.pc = "returned" /\ \A i \in 0..23 : opt.board[i] = FlatTile(0, 0, 0)) =>
     \A i \in 0..23 : opt.best_multiplier[i] = 1

\* C10 amended: for the board of 24 zero-reward tiles every candidate ties the
\* best metric (0) and is kept, so the optimizer returns the budget at every
\* tile; that is all ones only for a budget of 1.
C10_ZeroBoardAllBoosted ==
  (opt.pc = "returned" /\ \A i \in 0..23 : opt.board[i] = FlatTile(0, 0, 0)) =>
     /\ \A i \in 0..23 : opt.best_multiplier[i] = opt.multiplier
     /\ opt.i = 24
     /\ opt.best_ppd[1] = 0

\* the optimizer has returned for the zero board with a budget of 10
C10_Witness ==
  /\ opt.pc = "returned" /\ opt.multiplier = 10
  /\ \A i \in 0..23 : opt.board[i] = FlatTile(0, 0, 0)

\* the steady-state metric of an assignment bm: points per die, which is
\* sum(bm * points) / (sum(bm) - sum(bm * dice)) over the landed values
C11_Metric(bm, tmv) ==
  RDiv(RSum([j \in 0..23 |-> RMul(RInt(bm[j]), tmv[j][1])], 0, 23),
       RSub(RInt(bm[0] + bm[1] + bm[2] + bm[3] + bm[4] + bm[5] + bm[6] + bm[7]
                   + bm[8] + bm[9] + bm[10] + bm[11] + bm[12] + bm[13] + bm[14]
                   + bm[15] + bm[16] + bm[17] + bm[18] + bm[19] + bm[20] + bm[21]
                   + bm[22] + bm[23]),
            RSum([j \in 0..23 |-> RMul(RInt(bm[j]), tmv[j][2])], 0, 23)))

\* a greedy step that keeps its candidate
AcceptStep == opt.pc = "greedy" /\ opt'.pc = "greedy" /\ opt'.i = opt.i + 1

\* C11: the optimizer returns exactly 24 values, each 1 or the budget; the
\* greedy loop starts from the all-ones assignment, and every accepted step
\* holds the metric of its new assignment, which is not below the metric
\* held before the step.
C11_MonotoneGreedy ==
  /\ [](opt.pc = "returned" =>
          /\ DOMAIN opt.best_multiplier = 0..23
          /\ \A i \in 0..23 : opt.best_multiplier[i] \in {1, opt.multiplier})
  /\ []((opt.pc = "greedy" /\ opt.i = 0) =>
          \A i \in 0..23 : opt.best_multiplier[i] = 1)
  /\ [][AcceptStep =>
          /\ opt'.best_ppd = C11_Metric(opt'.best_multiplier, opt.tile_mult_value)
          /\ ~RLess(opt'.best_ppd, opt.best_ppd)]_vars

\* the optimizer kept strictly improving candidates, then rejected one and
\* returned an assignment mixing 1 and the budget
C11_Witness ==
  /\ opt.pc = "returned" /\ opt.multiplier = 10 /\ opt.i = 5
  /\ \E i, j \in 0..23 : opt.best_multiplier[i] = 1 /\ opt.best_multiplier[j] = 10
  /\ opt.best_ppd[1] > 0

\* the number of draws in 1..10000 for which get_reward selects each base value
C12_ValueDraws ==
  [v \in {100, 200, 500, 1000} |->
     Cardinality({spin \in 1..10000 : PointWheelPoints(spin) = v})]

\* the number of draws in 1..10000 for which get_reward selects each spin multiplier
C12_MultiplierDraws ==
  [k \in {1, 3, 5} |->
     Cardinality({spin2 \in 1..10000 : PointWheelSpinMultiplier(spin2) = k})]

\* the mean of base * spin multiplier over all pairs of draws, the two draws
\* being independent
C12_ExpectedPoints ==
  RMul(Rat(100 * C12_ValueDraws[100] + 200 * C12_ValueDraws[200]
             + 500 * C12_ValueDraws[500] + 1000 * C12_ValueDraws[1000], 10000),
       Rat(1 * C12_MultiplierDraws[1] + 3 * C12_MultiplierDraws[3]
             + 5 * C12_MultiplierDraws[5], 10000))

\* C12 as stated: the point component PointWheel's get_value returns is the
\* exact expected number of points of one visit at multiplier 1, and the
\* weight get_value gives each base value and each spin multiplier is the
\* number of draws in 1..10000 that select it in get_reward.
C12_ValueIsExpectation ==
  (call.op = "get_value" /\ call.tile.kind = "PointWheel") =>
     /\ call.value[1] = C12_ExpectedPoints
     /\ \A t \in PointWheelValueWeights : t[1] = C12_ValueDraws[t[2]]
     /\ \A t \in PointWheelMultiplierWeights : t[1] = C12_MultiplierDraws[t[2]]
     /\ {t[2] : t \in PointWheelValueWeights} = {100, 200, 500, 1000}
     /\ {t[2] : t \in PointWheelMultiplierWeights} = {1, 3, 5}

\* the outcomes of each wheel: the draws lo..hi pay amount of counter
C13_Out(lo, hi, counter, amount) ==
  [lo |-> lo, hi |-> hi, counter |-> counter, amount |-> amount]

C13_GrandPrize ==
  {C13_Out(1, 666, "chroma", 2), C13_Out(667, 3332, "obsidian", 1),
   C13_Out(3333, 5998, "gems", 100), C13_Out(5999, 6664, "chroma", 1),
   C13_Out(6665, 7330, "free_dice", 2), C13_Out(7331, 10000, "free_dice", 1)}

C13_FateWheel ==
  {C13_Out(1, 2500, "points", 500), C13_Out(2501, 2800, "otta", 2),
   C13_Out(2801, 3500, "chroma", 1), C13_Out(3501, 5000, "free_dice", 1),
   C13_Out(5001, 10000, "gold", 2000)}

\* the point wheel's first draw selects a base value, its second a factor
C13_PointWheelBase ==
  {C13_Out(1, 3478, "points", 200), C13_Out(3479, 6086, "points", 500),
   C13_Out(6087, 6520, "points", 1000), C13_Out(6521, 10000, "points", 100)}

C13_PointWheelFactor ==
  {C13_Out(1, 3076, "factor", 3), C13_Out(3077, 3845, "factor", 5),
   C13_Out(3846, 10000, "factor", 1)}

\* the outcomes a draw selects
C13_Selected(outcomes, draw) == {o \in outcomes : o.lo <= draw /\ draw <= o.hi}

\* the only change from before to after is that counter grew by amount; points
\* are awarded under the breakpoint rule, 2 free dice for each points
\* breakpoint newly reached
C13_OnlyChange(before, after, counter, amount) ==
  IF counter = "points"
  THEN LET total == before.current_state.points + amount
           crossed == PointsMet(total) \ PointsMet(before.current_state.points)
       IN after = [before EXCEPT !.current_state.points = total,
                                 !.current_state.free_dice = @ + 2 * Cardinality(crossed),
                                 !.points_bp_met = Cardinality(PointsMet(total)) - 1]
  ELSE after = [before EXCEPT !.current_state[counter] = @ + amount]

\* the tables are partitions of 1..10000 with no empty part
C13_Partition(outcomes) ==
  /\ \A o \in outcomes : o.lo <= o.hi
  /\ \A draw \in 1..10000 : Cardinality(C13_Selected(outcomes, draw)) = 1

\* every outcome of every wheel is what some draw makes get_reward pay
C13_EveryOutcomeDrawn ==
  /\ \A o \in C13_GrandPrize : \E draw \in 1..10000 :
       C13_OnlyChange(NewSimResult, get_reward(GrandPrizeTile, 1, NewSimResult, draw, 1),
                      o.counter, o.amount)
  /\ \A o \in C13_FateWheel : \E draw \in 1..10000 :
       C13_OnlyChange(NewSimResult, get_reward(FateWheelTile, 1, NewSimResult, draw, 1),
                      o.counter, o.amount)
  /\ \A o \in C13_PointWheelBase, f \in C13_PointWheelFactor :
       \E draw \in {o.lo, o.hi}, draw2 \in {f.lo, f.hi} :
         C13_OnlyChange(NewSimResult,
                        get_reward(PointWheelTile, 1, NewSimResult, draw, draw2),
                        "points", o.amount * f.amount)

GetRewardStep == pc = "tile" /\ call'.op = "get_reward"

C14_HistoryPerIteration ==
  /\ [](~save_history => result.saved_state = <<>>)
  /\ [](pc = "land" => Len(result.saved_state) < cs.rolls_done)
  /\ [][IF NextRunStep THEN result'.saved_state = <<>>
        ELSE /\ Len(result'.saved_state) >= Len(result.saved_state)
             /\ \A i \in 1..Len(result.saved_state) :
                  result'.saved_state[i] = result.saved_state[i]
             /\ (save_history /\ LandStep) =>
                  /\ Len(result'.saved_state) = Len(result.saved_state) + 1
                  /\ result'.saved_state[Len(result'.saved_state)]
                       = <<current_position', result'.current_state>>
             /\ ~LandStep => result'.saved_state = result.saved_state]_vars

\* a run with capture on has returned after three iterations whose entries
\* hold three different states, the first still the state of the first landing
C14_Witness ==
  /\ pc = "done" /\ save_history /\ Len(result.saved_state) = 3
  /\ result.saved_state[1][2].rolls_done = 1
  /\ result.saved_state[2][2].rolls_done = 2
  /\ result.saved_state[3][2] = cs
  /\ result.saved_state[1][2].points < result.saved_state[3][2].points

\* the result as SimResult() constructs it
C15_Zeroed(res) ==
  /\ \A f \in {"points", "rolls_done", "initial_dice", "free_dice", "gems",
               "chroma", "obsidian", "otta", "gold"} : res.current_state[f] = 0
  /\ res.saved_state = <<>>
  /\ res.points_bp_met = -1 /\ res.roll_dice_bp_met = -1

\* C15: no step of a run changes the board or the multiplier plan, and the
\* four tiers of a plan built from one list stay equal; a run that follows
\* another starts at position 0 from a zeroed result, with nothing of the
\* earlier run left in it, as the first run does.
C15_RunsIndependent ==
  /\ []((pc = "loop" /\ cs.rolls_done = 0) => (C15_Zeroed(result) /\ current_position = 0))
  /\ [][/\ board' = board
        /\ ~NextRunStep => multipliers' = multipliers
        /\ (~NextRunStep /\ multipliers[2] = multipliers[3]
              /\ multipliers[3] = multipliers[5] /\ multipliers[5] = multipliers[10]) =>
             (multipliers'[2] = multipliers'[3] /\ multipliers'[3] = multipliers'[5]
                /\ multipliers'[5] = multipliers'[10])
        /\ NextRunStep =>
             /\ C15_Zeroed(result') /\ current_position' = 0
             /\ runs' = runs + 1]_vars

\* a second run is rolling on the plan and the board of the first, which
\* had moved and scored
C15_Witness ==
  /\ runs = 1 /\ pc = "land" /\ cs.rolls_done = 1 /\ num_dice_rolls = 1
  /\ multipliers = Plan6x10 /\ board = SourceBoard /\ points_to_meet = 400

C17_PlanInRange ==
  \A t \in {2, 3, 5, 10} : \A i \in 0..23 : multipliers[t][i] \in 1..10

\* C17 as stated: in a run whose plan values are in 1..10, the multiplier
\* charged for a roll is at most turnsRemaining, and initialDiceSpent never
\* exceeds startingDice.
C17_NeverExceedsBudget ==
  [][C17_PlanInRange =>
       /\ RollStep => multiplier' <= num_dice_rolls - cs.initial_dice + cs.free_dice
       /\ result'.current_state.initial_dice <= num_dice_rolls']_vars

\* C17 amended: in a run whose plan values are in 1..10, the multiplier
\* charged for a roll is at least 1 and at most turnsRemaining, a roll draws
\* from the starting budget no more than remains in it, and initialDiceSpent
\* never exceeds startingDice when that is not negative; it stays 0 when
\* startingDice is negative.
C17_NeverOverdraws ==
  /\ [](C17_PlanInRange =>
          cs.initial_dice <= (IF num_dice_rolls > 0 THEN num_dice_rolls ELSE 0))
  /\ [][(C17_PlanInRange /\ RollStep) =>
          /\ multiplier' >= 1
          /\ multiplier' <= num_dice_rolls - cs.initial_dice + cs.free_dice
          /\ result'.current_state.initial_dice - cs.initial_dice
               <= num_dice_rolls - cs.initial_dice
          /\ result'.current_state.initial_dice <= num_dice_rolls]_vars

\* a roll from the edge of a tier: 2 dice were charged with 20 turns remaining
C17_Witness ==
  /\ pc = "land" /\ multiplier = 2 /\ cs.free_dice = 0
  /\ num_dice_rolls > 100 /\ num_dice_rolls - cs.initial_dice = 18

\* a step of the greedy loop that tries a candidate
TryStep == opt.pc = "greedy" /\ opt.i < 24 /\ opt' # opt

\* C18: the candidates are tried in descending order of landed value; a
\* candidate whose metric is strictly below the current best is reverted to 1
\* and ends the loop, any other (also one that ties the best) is kept; so the
\* boosted tiles are always the first opt.i tiles of the sorted order and no
\* tile from the rejected one on is boosted.
C18_GreedyPrefix ==
  /\ [](opt.pc \in {"greedy", "returned"} =>
          /\ {opt.sorted_index[k] : k \in 0..23} = 0..23
          /\ \A j, k \in 0..23 :
               j < k => ~RLess(opt.tile_mult_value[opt.sorted_index[j]][3],
                               opt.tile_mult_value[opt.sorted_index[k]][3])
          /\ \A k \in 0..23 :
               opt.best_multiplier[opt.sorted_index[k]]
                 = IF k < opt.i THEN opt.multiplier ELSE 1)
  /\ [][TryStep =>
          LET tried == [opt.best_multiplier EXCEPT
                          ![opt.sorted_index[opt.i]] = opt.multiplier]
              metric == C11_Metric(tried, opt.tile_mult_value)
          IN IF RLess(metric, opt.best_ppd)
             THEN /\ opt'.pc = "returned" /\ opt'.i = opt.i
                  /\ opt'.best_multiplier = opt.best_multiplier
                  /\ opt'.best_ppd = opt.best_ppd
             ELSE /\ opt'.pc = "greedy" /\ opt'.i = opt.i + 1
                  /\ opt'.best_multiplier = tried
                  /\ opt'.best_ppd = metric]_vars

\* the optimizer boosted the seven most valuable tiles, rejected the eighth
\* and returned, on a board whose landed values differ
C18_Witness ==
  /\ opt.pc = "returned" /\ opt.i = 7 /\ opt.multiplier = 5
  /\ opt.best_multiplier[opt.sorted_index[6]] = 5
  /\ opt.best_multiplier[opt.sorted_index[7]] = 1
  /\ RLess(opt.tile_mult_value[opt.sorted_index[7]][3],
           opt.tile_mult_value[opt.sorted_index[0]][3])

\* the free dice a tile can grant at multiplier m, whatever it draws
C19_TileGrants(tile, m) ==
  CASE tile.kind = "Flat" -> {tile.dice * m}
    [] tile.kind = "GrandPrize" -> {0, 1 * m, 2 * m}
    [] tile.kind = "FateWheel" -> {0, 1 * m}
    [] tile.kind = "PointWheel" -> {0}

\* the dice of a run not yet accounted for: charged, less those paid from the
\* starting budget, plus those still banked
C19_Granted(state) == state.rolls_done - state.initial_dice + state.free_dice

\* C19: rolls_done = initialDiceSpent + free dice granted - freeDice in every
\* state of a run.  Both sides start at 0; a roll charges its multiplier to
\* the banked dice as far as they go and the rest to the starting budget, and
\* grants the roll bonus; a landing charges nothing and grants the dice of
\* its tile and 2 for each points breakpoint newly reached; nothing else
\* changes the three counters.
C19_DiceConservation ==
  /\ []((pc = "loop" /\ cs.rolls_done = 0) => C19_Granted(cs) = 0)
  /\ [](C19_Granted(cs) >= 0)
  /\ [][LET after == result'.current_state
            granted == C19_Granted(after) - C19_Granted(cs)
        IN /\ RollStep =>
                LET from_banked == IF cs.free_dice < multiplier' THEN cs.free_dice
                                   ELSE multiplier'
                IN /\ after.rolls_done = cs.rolls_done + multiplier'
                   /\ after.initial_dice = cs.initial_dice + (multiplier' - from_banked)
                   /\ granted = RollBonus(cs.rolls_done, after.rolls_done)
                   /\ after.free_dice = cs.free_dice - from_banked + granted
           /\ LandStep =>
                /\ after.rolls_done = cs.rolls_done
                /\ after.initial_dice = cs.initial_dice
                /\ \E g \in C19_TileGrants(board[current_position'], multiplier) :
                     granted = g + 2 * Cardinality(PointsMet(after.points)
                                                     \ PointsMet(cs.points))
           /\ ReturnStep => granted = 0
           /\ NextRunStep => C19_Granted(after) = 0]_vars

\* one starting die and four granted dice: three rolls charged, two dice banked
C19_Witness ==
  /\ pc = "land" /\ cs.rolls_done = 3 /\ cs.initial_dice = 1 /\ cs.free_dice = 2
  /\ num_dice_rolls = 1

\* the thresholds of the two ladders, as the spec lists them
C20_PointsLadder ==
  {base + cycle : base \in {2000, 5000, 8000, 12000, 16000, 20000},
                  cycle \in {0, 20000, 40000, 60000, 80000}}

C20_RollLadder ==
  {5, 10, 20, 30, 40, 60, 80, 100, 150, 200, 250, 300, 350, 400, 450, 500, 600}

\* C20: in every state of a run the points cursor + 1 is the number of
\* points thresholds at or below the points, and the roll cursor + 1 the
\* number of roll thresholds at or below rolls_done; within a run no cursor
\* decreases, and the free dice a landing grants beyond those of its tile are
\* 2 for each step of the points cursor, so that the points breakpoints have
\* granted 2 * (points cursor + 1) dice in all.
C20_CursorsCountThresholds ==
  /\ [](/\ Cardinality(C20_PointsLadder) = 30
        /\ result.points_bp_met + 1
             = Cardinality({t \in C20_PointsLadder : t <= cs.points})
        /\ result.roll_dice_bp_met + 1
             = Cardinality({t \in C20_RollLadder : t <= cs.rolls_done}))
  /\ [][/\ ~NextRunStep =>
             /\ result'.points_bp_met >= result.points_bp_met
             /\ result'.roll_dice_bp_met >= result.roll_dice_bp_met
        /\ NextRunStep => (result'.points_bp_met = -1 /\ result'.roll_dice_bp_met = -1)
        /\ RollStep => result'.points_bp_met = result.points_bp_met
        /\ LandStep =>
             /\ result'.roll_dice_bp_met = result.roll_dice_bp_met
             /\ \E g \in C19_TileGrants(board[current_position'], multiplier) :
                  result'.current_state.free_dice
                    = cs.free_dice + g
                        + 2 * (result'.points_bp_met - result.points_bp_met)]_vars

\* one landing took the points from 0 past fifteen thresholds at once, after
\* a roll charged at 10 that passed two roll thresholds
C20_Witness ==
  /\ pc = "loop" /\ cs.rolls_done = 10 /\ cs.points = 50000
  /\ result.points_bp_met = 14 /\ cs.free_dice = 32 /\ result.roll_dice_bp_met = 1

\* no tile of the board grants free dice, and every plan value is in 1..10
C21_NoDiceBoard ==
  /\ \A i \in 0..23 : board[i].kind \in {"Flat", "PointWheel"} /\ board[i].dice = 0
  /\ \A t \in {2, 3, 5, 10} : \A i \in 0..23 : multipliers[t][i] \in 1..10

\* C21 as stated: on a board whose tiles grant no free dice, with plan values
\* in 1..10, rolls_done never exceeds startingDice + 2*30 + 65.
C21_RollsBoundedByBudget ==
  C21_NoDiceBoard => cs.rolls_done <= num_dice_rolls + 2 * 30 + 65

\* C21 amended: on such a board every run returns, under every sequence of
\* draws, and rolls_done never exceeds startingDice + 2*30 + 65 when
\* startingDice is not negative; with a negative startingDice rolls_done
\* stays 0.
C21_RunTerminates ==
  /\ [](C21_NoDiceBoard =>
          cs.rolls_done <= (IF num_dice_rolls > 0 THEN num_dice_rolls ELSE 0) + 2 * 30 + 65)
  /\ [][(C21_NoDiceBoard /\ RollStep) =>
          result'.current_state.rolls_done > cs.rolls_done]_vars
  /\ []((C21_NoDiceBoard /\ pc \in {"loop", "land"}) => <>(pc = "done"))

\* a run returned having rolled exactly its budget and all 125 dice of the
\* two ladders
C21_Witness ==
  /\ pc = "done" /\ num_dice_rolls >= 480 /\ cs.rolls_done = num_dice_rolls + 125
  /\ result.points_bp_met = 29 /\ result.roll_dice_bp_met = 16
  /\ cs.points < points_to_meet

====
